---- MODULE Spec2Model ----
(***************************************************************************)
(* A model of the logging package: the registry of named loggers and the   *)
(* level filtering of Logger.Write (specification Spec), the stop/ack      *)
(* handshake between Init and the background worker (SpecBg), and the      *)
(* devices under concurrent Write and Flush calls (SpecDev).               *)
(*                                                                         *)
(* Go strings are modelled as sequences of one-character strings, so that  *)
(* strings.ToLower and strings.SplitN are computed character by character. *)
(***************************************************************************)
EXTENDS Integers, Sequences, FiniteSets, TLC

VARIABLES
    heap,        \* the Logger objects allocated so far; a *Logger is an index
    loggerMap,   \* the registry: lower-case name -> *Logger
    booted,      \* package initialization (func init) has completed
    panicked,    \* a call panicked: the process is gone
    last,        \* the most recent call of the public API and what it returned
    lastConfig   \* the configuration of the most recent Init (SpecInit only)

regVars == <<heap, loggerMap, booted, panicked, last, lastConfig>>

VARIABLES
    bgWorkerCloseCh,  \* the channel of stop requests (capacity 1): the acknowledgment
                      \* channels sent and not yet received
    ackCh,            \* per Init caller, its channel ch (capacity 1)
    workers,          \* the bgWorker goroutines launched so far
    ipc,              \* per Init caller, where it stands in init / Init
    iconfig,          \* per Init caller, the configuration entries left to apply
    calls,            \* Init calls made by user code
    now,              \* the date of the wall clock
    lastDate          \* the cached date (0 until updateNow has run)

bgVars == <<bgWorkerCloseCh, ackCh, workers, ipc, iconfig, calls, now, lastDate>>

VARIABLES
    devs,      \* per writer of the logger written to, the state of its device
    disk,      \* the log files: date in the file name -> contents
    handles,   \* the open file handles
    fopens,    \* the dates of the files opened so far; a handle is an index
    accepted,  \* per date, the bytes handed to the file device's bufio.Writer
    out,       \* per writer, the bytes its device wrote to os.Stdout
    procs,     \* the goroutines in Logger.Write
    flusher    \* a goroutine in Logger.Flush

devVars == <<devs, disk, handles, fopens, accepted, out, procs, flusher>>

VARIABLES
    wprocs,      \* the goroutines in Logger.Write, seen statement by statement
    pool,        \* the buffers the pool holds
    bufs,        \* the contents of the buffers allocated so far; a
                 \* *bytes.Buffer is an index
    recv,        \* per logger, writer and goroutine, the messages the
                 \* writer's device was handed by the goroutine
    exitStatus   \* the status os.Exit was called with (-1: the process runs)

wrVars == <<wprocs, pool, bufs, recv, exitStatus>>

VARIABLES
    fsOK,        \* os.OpenFile succeeds
    dropped,     \* the Logger.Write calls whose file device could not open,
                 \* with the date each had read
    loaded       \* the dates user code read from lastDate in FileDevice.Write

newVars == <<wrVars, fsOK, dropped, loaded>>

vars == <<regVars, bgVars, devVars, newVars>>

----------------------------------------------------------------------------
(* Levels: const block of the package.                                      *)

DEBUG == 0
INFO == 1
WARN == 2
ERROR == 3
DISABLE == 4
FATAL == 5

Levels == DEBUG..FATAL

----------------------------------------------------------------------------
(* Bounds of the model.                                                     *)

\* Logger objects ever allocated (registered ones and NewLogger's).
MaxLoggers == 2
\* Writers one logger may own (Init's appends are cut off here).
MaxWriters == 2
\* Entries of a configuration handed to Init.
MaxDefs == 2
\* Init calls user code makes while the worker runs (SpecBg).
MaxInits == 2
\* Days the wall clock passes through.
MaxDate == 2
\* Logger.Write calls made in all.
MaxWrites == 3
\* Bytes of a formatted message.
MsgLen == 2
\* Bytes a bufio.Writer holds before it must flush.
BufSize == 3
\* Buffers the pool's New ever allocates.
MaxBufs == 3

----------------------------------------------------------------------------
(* Strings.                                                                 *)

Upper == <<"A","B","C","D","E","F","G","H","I","J","K","L","M",
           "N","O","P","Q","R","S","T","U","V","W","X","Y","Z">>
Lower == <<"a","b","c","d","e","f","g","h","i","j","k","l","m",
           "n","o","p","q","r","s","t","u","v","w","x","y","z">>

\* unicode.ToLower, as a table over the letters.
LowerMap == [c \in {Upper[i] : i \in 1..26} |->
                Lower[CHOOSE i \in 1..26 : Upper[i] = c]]

\* unicode.ToLower on one character.
LowerChar(c) == IF c \in DOMAIN LowerMap THEN LowerMap[c] ELSE c

\* strings.ToLower
ToLower(s) == [i \in 1..Len(s) |-> LowerChar(s[i])]

\* strings.SplitN(define, ":", 2): one item without a colon, else the text
\* before the first colon and the text after it.
SplitN2(define) ==
    IF \E i \in 1..Len(define) : define[i] = ":"
    THEN LET k == CHOOSE i \in 1..Len(define) :
                      /\ define[i] = ":"
                      /\ \A j \in 1..(i-1) : define[j] # ":"
         IN <<SubSeq(define, 1, k-1), SubSeq(define, k+1, Len(define))>>
    ELSE <<define>>

sDefault == <<"d","e","f","a","u","l","t">>
sConsole == <<"c","o","n","s","o","l","e">>
sStdout == <<"s","t","d","o","u","t">>
sFile == <<"f","i","l","e">>

\* The keys of deviceMap.
deviceMap == {sFile, sStdout, sConsole}

\* The goroutines that call Init: 1 is the main goroutine, which runs func
\* init first.
Callers == {1, 2}

\* The goroutines that call Logger.Write.
Procs == {1, 2}

\* A goroutine outside Logger.Write: n counts its calls so far.
IdleProc == [pc |-> "idle", i |-> 0, k |-> 0, date |-> 0, n |-> 0, level |-> 0]

\* A goroutine outside Logger.Write (specification SpecWrite): n counts its
\* calls so far; gets, puts and fmts count what its last call did.
IdleCall ==
    [pc |-> "idle", log |-> 0, level |-> 0, fatal |-> FALSE, i |-> 0, buff |-> 0,
     gotLen |-> 0, gets |-> 0, puts |-> 0, fmts |-> 0, n |-> 0]

\* Error values of SetLevel ("nil": no error; "panic": the call panicked).
ErrNameNotFound == "name_not_found"
ErrIndexOutOfBound == "index_out_of_bound"

----------------------------------------------------------------------------
(* Pure functions of the package.                                           *)

getLevelFromStr(level) ==
    LET l == ToLower(level) IN
    CASE l = <<"d">> -> DEBUG
      [] l = <<"i">> -> INFO
      [] l = <<"w">> -> WARN
      [] l = <<"e">> -> ERROR
      [] l = <<"d","e","b","u","g">> -> DEBUG
      [] l = <<"i","n","f","o">> -> INFO
      [] l = <<"w","a","r","n">> -> WARN
      [] l = <<"w","a","r","n","i","n","g">> -> WARN
      [] l = <<"e","r","r">> -> ERROR
      [] l = <<"e","r","r","o","r">> -> ERROR
      [] l = <<"d","i","s","a","b","l","e">> -> DISABLE
      [] OTHER -> INFO

getLevelStr2(level) ==
    CASE level = DEBUG -> "DEBUG"
      [] level = INFO -> "INFO"
      [] level = WARN -> "WARN"
      [] level = ERROR -> "ERROR"
      [] level = FATAL -> "FATAL"
      [] OTHER -> "INFO"

\* DefaultFormatter.Format: the rendering carries the level's tag and the
\* message (the time stamp and the call site are left out of the bytes).
Format(level, msg) == [tag |-> getLevelStr2(level), msg |-> msg]

\* NewDevice looks the kind up in deviceMap and calls the constructor found
\* there; an unknown kind yields a nil function, and calling it panics.
DeviceKnown(define) == SplitN2(define)[1] \in deviceMap

NewDevice(define) ==
    LET items == SplitN2(define) IN
    [kind |-> items[1], args |-> IF Len(items) = 2 THEN items[2] ELSE <<>>]

NewWriter(level, device) == [level |-> level, device |-> NewDevice(device)]

RECURSIVE MinLevelFrom(_, _)
\* The loop of UpdateLevel: lower m to every smaller writer level.
MinLevelFrom(m, writers) ==
    IF writers = <<>> THEN m
    ELSE MinLevelFrom(IF Head(writers).level < m THEN Head(writers).level ELSE m,
                      Tail(writers))

\* A variant of UpdateLevel that keeps the greatest writer level.
UpdateLevelMax(log) ==
    [log EXCEPT !.minLevel =
        IF log.writers = <<>> THEN DISABLE
        ELSE CHOOSE m \in {log.writers[i].level : i \in 1..Len(log.writers)} :
                 \A i \in 1..Len(log.writers) : log.writers[i].level <= m]

\* Logger.UpdateLevel
UpdateLevel(log) == [log EXCEPT !.minLevel = MinLevelFrom(DISABLE, log.writers)]

\* NewLogger, as a value (the caller allocates it).
NewLoggerVal(writers) == UpdateLevel([minLevel |-> 0, writers |-> writers])

----------------------------------------------------------------------------
(* The record of the last call.                                             *)

NoCall ==
    [op |-> "none", name |-> <<>>, index |-> 0, level |-> 0, str |-> <<>>,
     log |-> 0, err |-> "nil", msg |-> "", out |-> <<>>]

----------------------------------------------------------------------------
(* Init.                                                                    *)

RECURSIVE ApplyConfig(_, _, _)
\* The loop of Init over the configuration, from registry m and heap h:
\* the registry and the heap it leaves, and whether NewDevice panicked.
ApplyConfig(config, m, h) ==
    IF config = <<>> THEN [map |-> m, heap |-> h, panic |-> FALSE]
    ELSE LET logger == Head(config)
             Name == ToLower(logger.Name)
             Writer == ToLower(logger.Writer)
         IN  IF ~DeviceKnown(Writer)
             THEN [map |-> m, heap |-> h, panic |-> TRUE]
             ELSE LET w == NewWriter(getLevelFromStr(logger.Level), Writer) IN
                  IF Name \in DOMAIN m
                  THEN ApplyConfig(Tail(config), m,
                         [h EXCEPT ![m[Name]] =
                            UpdateLevel([@ EXCEPT !.writers = Append(@, w)])])
                  ELSE ApplyConfig(Tail(config),
                         m @@ (Name :> Len(h) + 1),
                         Append(h, NewLoggerVal(<<w>>)))

\* A variant of the tail of Init that adds no default logger.
EnsureDefaultNone(r) == r

\* The tail of Init: a logger named "default" is added when there is none.
EnsureDefault(r) ==
    IF sDefault \in DOMAIN r.map THEN r
    ELSE [r EXCEPT !.map = @ @@ (sDefault :> Len(r.heap) + 1),
                   !.heap = Append(@, NewLoggerVal(<<NewWriter(DEBUG, sConsole)>>))]

\* What Init(config) leaves of registry m and heap h.
InitResult(config, m, h) ==
    LET r == ApplyConfig(config, m, h) IN
    IF r.panic THEN r ELSE EnsureDefault(r)

----------------------------------------------------------------------------
(* The inputs the calls are tried with.                                     *)

sApp == <<"A","p","p">>

\* Names given in configurations.
ConfigNames == {sApp, sDefault}
\* Names given to GetLogger.
LookupNames == {sApp, <<"a","p","p">>, <<"A","P","P">>, sDefault, <<"n","o">>}
\* Names given to SetLevel.
SetNames == {<<"a","p","p">>, sDefault, <<"n","o">>}
\* Level strings ("fatal" is not one getLevelFromStr knows).
ConfigLevels == {<<"W">>, <<"d","i","s","a","b","l","e">>}
SetLevels == {<<"E","r","r">>, <<"f","a","t","a","l">>}
\* Levels given to NewWriter by the user.
UserLevels == {WARN, FATAL}
\* Device descriptors ("tcp" is no key of deviceMap).
WriterStrs == {<<"S","t","d","o","u","t">>, <<"t","c","p">>}
Msgs == {"y"}

LoggerDefines == [Name : ConfigNames, Level : ConfigLevels, Writer : WriterStrs]

SeqsUpTo(S, n) == UNION {[1..k -> S] : k \in 0..n}

----------------------------------------------------------------------------
(* The calls of the public API, one at a time (specification Spec).         *)

Live == booted /\ ~panicked

WithinBounds(r) ==
    /\ Len(r.heap) <= MaxLoggers
    /\ \A i \in 1..Len(r.heap) : Len(r.heap[i].writers) <= MaxWriters

\* func init: Init(nil) on the empty registry.
init ==
    /\ ~booted
    /\ \E r \in {InitResult(<<>>, loggerMap, heap)} :
       /\ loggerMap' = r.map
       /\ heap' = r.heap
    /\ booted' = TRUE
    /\ UNCHANGED <<panicked, last, lastConfig>>

Init(config) ==
    /\ Live
    /\ \E r \in {InitResult(config, loggerMap, heap)} :
       /\ WithinBounds(r)
       /\ loggerMap' = r.map
       /\ heap' = r.heap
       /\ panicked' = r.panic
       /\ last' = [NoCall EXCEPT !.op = "Init",
                                 !.err = IF r.panic THEN "panic" ELSE "nil"]
    /\ UNCHANGED booted

\* NewLogger(&DefaultFormatter{}, writers...) called by the user.
NewLogger(writers) ==
    /\ Live
    /\ Len(heap) < MaxLoggers
    /\ heap' = Append(heap, NewLoggerVal(writers))
    /\ last' = [NoCall EXCEPT !.op = "NewLogger", !.log = Len(heap) + 1]
    /\ UNCHANGED <<loggerMap, booted, panicked>>

\* GetLogger; 0 stands for a nil *Logger.
GetLoggerRet(name) ==
    IF name \in DOMAIN loggerMap THEN loggerMap[name]
    ELSE IF sDefault \in DOMAIN loggerMap THEN loggerMap[sDefault] ELSE 0

GetLogger(name) ==
    /\ Live
    /\ last' = [NoCall EXCEPT !.op = "GetLogger", !.name = name,
                              !.log = GetLoggerRet(name)]
    /\ UNCHANGED <<heap, loggerMap, booted, panicked>>

\* "for _, writer := range log.writers { writer.level = newlevel }": the
\* loop variable is a copy of the element (log.writers is a []Writer), so
\* the assignment changes the copy and the slice keeps its levels.
SetAllLevels(writers, newlevel) == writers

\* log.writers[index].level = newlevel (index counts from 0).
SetOneLevel(writers, index, newlevel) ==
    [writers EXCEPT ![index + 1].level = newlevel]

\* The outcome of SetLevel(name, index, level) on registry and heap.
SetLevelResult(name, index, level) ==
    IF name \notin DOMAIN loggerMap
    THEN [err |-> ErrNameNotFound, heap |-> heap]
    ELSE LET log == loggerMap[name]
             newlevel == getLevelFromStr(level)
         IN  IF index >= Len(heap[log].writers)
             THEN [err |-> ErrIndexOutOfBound, heap |-> heap]
             ELSE IF index = -1
             THEN [err |-> "nil",
                   heap |-> [heap EXCEPT ![log] = UpdateLevel(
                       [@ EXCEPT !.writers = SetAllLevels(@, newlevel)])]]
             ELSE IF index < 0
             \* log.writers[index] with a negative index: a run-time panic
             THEN [err |-> "panic", heap |-> heap]
             ELSE [err |-> "nil",
                   heap |-> [heap EXCEPT ![log] = UpdateLevel(
                       [@ EXCEPT !.writers = SetOneLevel(@, index, newlevel)])]]

SetLevel(name, index, level) ==
    /\ Live
    /\ \E r \in {SetLevelResult(name, index, level)} :
       /\ heap' = r.heap
       /\ panicked' = (r.err = "panic")
       /\ last' = [NoCall EXCEPT !.op = "SetLevel", !.name = name,
                                 !.index = index, !.str = level, !.err = r.err]
    /\ UNCHANGED <<loggerMap, booted>>

\* A variant of the test that refuses a message at the writer's own level.
AcceptsStrict(level, writer) == level > writer.level

\* A variant of the test in which a DISABLE writer accepts nothing.
AcceptsUnlessDisabled(level, writer) ==
    writer.level # DISABLE /\ level >= writer.level

\* The test of the loop of Logger.Write.
Accepts(level, writer) == level >= writer.level

RECURSIVE Dispatch(_, _, _, _)
\* The loop of Logger.Write from writer i on: what each device is handed.
Dispatch(writers, i, level, b) ==
    IF i > Len(writers) THEN <<>>
    ELSE (IF Accepts(level, writers[i])
          THEN <<[writer |-> i, bytes |-> b]>> ELSE <<>>)
         \o Dispatch(writers, i + 1, level, b)

\* A variant of Logger.Write that also returns early at minLevel itself.
WriteOutEager(log, level, msg) ==
    IF level <= log.minLevel THEN <<>>
    ELSE Dispatch(log.writers, 1, level, Format(level, msg))

\* Logger.Write: the device writes it makes, in order.
WriteOut(log, level, msg) ==
    IF level < log.minLevel THEN <<>>
    ELSE Dispatch(log.writers, 1, level, Format(level, msg))

Write(log, level, msg) ==
    /\ Live
    /\ last' = [NoCall EXCEPT !.op = "Write", !.log = log, !.level = level,
                              !.msg = msg,
                              !.out = WriteOut(heap[log], level, msg)]
    /\ UNCHANGED <<heap, loggerMap, booted, panicked>>

\* The package before func init has run.
Start ==
    /\ heap = <<>>
    /\ loggerMap = <<>>
    /\ booted = FALSE
    /\ panicked = FALSE
    /\ last = NoCall
    /\ lastConfig = <<>>
    /\ bgWorkerCloseCh = <<>>
    /\ ackCh = [c \in Callers |-> <<>>]
    /\ workers = <<>>
    /\ ipc = [c \in Callers |-> IF c = 1 THEN "boot" ELSE "idle"]
    /\ iconfig = [c \in Callers |-> <<>>]
    /\ calls = 0
    /\ now = 1
    /\ lastDate = 0
    /\ devs = <<>>
    /\ disk = [d \in 0..(MaxDate + 1) |-> <<>>]
    /\ handles = {}
    /\ fopens = <<>>
    /\ accepted = [d \in 0..(MaxDate + 1) |-> <<>>]
    /\ out = <<>>
    /\ procs = [p \in Procs |-> IdleProc]
    /\ flusher = [pc |-> "idle", i |-> 0]
    /\ wprocs = [p \in Procs |-> IdleCall]
    /\ pool = {}
    /\ bufs = <<>>
    /\ recv = <<>>
    /\ exitStatus = -1
    /\ fsOK = TRUE
    /\ dropped = {}
    /\ loaded = {}

RegNext ==
    \/ init /\ UNCHANGED <<bgVars, devVars, newVars>>
    \/ \E config \in SeqsUpTo(LoggerDefines, MaxDefs) :
          Init(config) /\ UNCHANGED <<lastConfig, bgVars, devVars, newVars>>
    \/ NewLogger(<<>>) /\ UNCHANGED <<lastConfig, bgVars, devVars, newVars>>
    \/ \E level \in UserLevels :
          NewLogger(<<NewWriter(level, sConsole)>>) /\ UNCHANGED <<lastConfig, bgVars, devVars, newVars>>
    \/ \E name \in LookupNames : GetLogger(name) /\ UNCHANGED <<lastConfig, bgVars, devVars, newVars>>
    \/ \E name \in SetNames, index \in -2..MaxWriters, level \in SetLevels :
          SetLevel(name, index, level) /\ UNCHANGED <<lastConfig, bgVars, devVars, newVars>>
    \/ \E log \in 1..Len(heap), level \in Levels, msg \in Msgs :
          Write(log, level, msg) /\ UNCHANGED <<lastConfig, bgVars, devVars, newVars>>

Spec == Start /\ [][RegNext]_vars

\* Init alone, with the configuration of each call kept for inspection.
InitNext ==
    \/ init /\ UNCHANGED <<bgVars, devVars, newVars>>
    \/ \E config \in SeqsUpTo(LoggerDefines, MaxDefs) :
          Init(config) /\ lastConfig' = config /\ UNCHANGED <<bgVars, devVars, newVars>>

SpecInit == Start /\ [][InitNext]_vars


----------------------------------------------------------------------------
(* Init and bgWorker as goroutines, step by step (specification SpecBg).    *)
(* A step is one channel operation, one call of updateNow, one logger of    *)
(* the flush pass, or one entry of Init's loop.                             *)

\* A goroutine that has just been launched by "go bgWorker()".
NewWorker == [pc |-> "start", ch |-> 0, seen |-> {}]

\* Configurations user code hands to Init here: their devices exist.
BgConfigs ==
    {<<>>,
     <<[Name |-> sApp, Level |-> <<"W">>, Writer |-> sStdout]>>,
     <<[Name |-> sApp, Level |-> <<"W">>, Writer |-> sStdout],
       [Name |-> sDefault, Level |-> <<"e">>, Writer |-> sConsole]>>}

\* func init: "go bgWorker()", then Init(nil).
initGo ==
    /\ ipc[1] = "boot"
    /\ workers' = Append(workers, NewWorker)
    /\ ipc' = [ipc EXCEPT ![1] = "send"]
    /\ iconfig' = [iconfig EXCEPT ![1] = <<>>]
    /\ UNCHANGED <<regVars, bgWorkerCloseCh, ackCh, calls, now, lastDate>>

\* User code calls Init(config): ch := make(chan int, 1).
InitCall(c, config) ==
    /\ booted
    /\ ipc[c] = "idle"
    /\ calls < MaxInits
    /\ calls' = calls + 1
    /\ ipc' = [ipc EXCEPT ![c] = "send"]
    /\ iconfig' = [iconfig EXCEPT ![c] = config]
    /\ ackCh' = [ackCh EXCEPT ![c] = <<>>]
    /\ UNCHANGED <<regVars, bgWorkerCloseCh, workers, now, lastDate>>

\* bgWorkerCloseCh <- ch: blocks while the channel holds a request.
InitSend(c) ==
    /\ ipc[c] = "send"
    /\ Len(bgWorkerCloseCh) < 1
    /\ bgWorkerCloseCh' = Append(bgWorkerCloseCh, c)
    /\ ipc' = [ipc EXCEPT ![c] = "recv"]
    /\ UNCHANGED <<regVars, ackCh, workers, iconfig, calls, now, lastDate>>

\* A variant of the receive that does not wait for the acknowledgment.
InitRecvNoWait(c) ==
    /\ ipc[c] = "recv"
    /\ ipc' = [ipc EXCEPT ![c] = "loop"]
    /\ UNCHANGED <<regVars, bgWorkerCloseCh, ackCh, workers, iconfig, calls, now, lastDate>>

\* <-ch: blocks until the worker has acknowledged.
InitRecv(c) ==
    /\ ipc[c] = "recv"
    /\ ackCh[c] # <<>>
    /\ ackCh' = [ackCh EXCEPT ![c] = Tail(@)]
    /\ ipc' = [ipc EXCEPT ![c] = "loop"]
    /\ UNCHANGED <<regVars, bgWorkerCloseCh, workers, iconfig, calls, now, lastDate>>

\* One round of "for _, logger := range config", or its end.
InitLoop(c) ==
    /\ ipc[c] = "loop"
    /\ IF iconfig[c] = <<>>
       THEN /\ ipc' = [ipc EXCEPT ![c] = "default"]
            /\ UNCHANGED <<heap, loggerMap, iconfig>>
       ELSE /\ \E r \in {ApplyConfig(<<Head(iconfig[c])>>, loggerMap, heap)} :
                 /\ loggerMap' = r.map
                 /\ heap' = r.heap
            /\ iconfig' = [iconfig EXCEPT ![c] = Tail(@)]
            /\ UNCHANGED ipc
    /\ UNCHANGED <<booted, panicked, last, lastConfig,
                   bgWorkerCloseCh, ackCh, workers, calls, now, lastDate>>

\* "if _, ok := loggerMap["default"]; !ok { ... }"
InitDefault(c) ==
    /\ ipc[c] = "default"
    /\ \E r \in {EnsureDefault([map |-> loggerMap, heap |-> heap, panic |-> FALSE])} :
          /\ loggerMap' = r.map
          /\ heap' = r.heap
    /\ ipc' = [ipc EXCEPT ![c] = "go"]
    /\ UNCHANGED <<booted, panicked, last, lastConfig,
                   bgWorkerCloseCh, ackCh, workers, iconfig, calls, now, lastDate>>

\* "go bgWorker()", and Init returns.
InitGo(c) ==
    /\ ipc[c] = "go"
    /\ workers' = Append(workers, NewWorker)
    /\ ipc' = [ipc EXCEPT ![c] = "idle"]
    /\ booted' = TRUE
    /\ UNCHANGED <<heap, loggerMap, panicked, last, lastConfig,
                   bgWorkerCloseCh, ackCh, iconfig, calls, now, lastDate>>

\* updateNow stores the date of time.Now() in lastDate.
updateNow == lastDate' = now

\* A variant of the worker's start that leaves the clock cache alone.
WorkerStartNoUpdate(w) ==
    /\ workers[w].pc = "start"
    /\ workers' = [workers EXCEPT ![w].pc = "select"]
    /\ UNCHANGED <<regVars, bgWorkerCloseCh, ackCh, ipc, iconfig, calls, now, lastDate>>

\* bgWorker up to its loop: updateNow(), time.NewTicker.
WorkerStart(w) ==
    /\ workers[w].pc = "start"
    /\ updateNow
    /\ workers' = [workers EXCEPT ![w].pc = "select"]
    /\ UNCHANGED <<regVars, bgWorkerCloseCh, ackCh, ipc, iconfig, calls, now>>

\* case ch := <-bgWorkerCloseCh
WorkerRecvClose(w) ==
    /\ workers[w].pc = "select"
    /\ bgWorkerCloseCh # <<>>
    /\ workers' = [workers EXCEPT ![w].pc = "stop", ![w].ch = Head(bgWorkerCloseCh)]
    /\ bgWorkerCloseCh' = Tail(bgWorkerCloseCh)
    /\ UNCHANGED <<regVars, ackCh, ipc, iconfig, calls, now, lastDate>>

\* A variant of the stop case that acknowledges and stays in the loop.
WorkerAckNoReturn(w) ==
    /\ workers[w].pc = "stop"
    /\ Len(ackCh[workers[w].ch]) < 1
    /\ ackCh' = [ackCh EXCEPT ![workers[w].ch] = Append(@, 1)]
    /\ workers' = [workers EXCEPT ![w].pc = "select", ![w].ch = 0]
    /\ UNCHANGED <<regVars, bgWorkerCloseCh, ipc, iconfig, calls, now, lastDate>>

\* A variant of the stop case that returns without acknowledging.
WorkerReturnsSilently(w) ==
    /\ workers[w].pc = "stop"
    /\ workers' = [workers EXCEPT ![w].pc = "done", ![w].ch = 0]
    /\ UNCHANGED <<regVars, bgWorkerCloseCh, ackCh, ipc, iconfig, calls, now, lastDate>>

\* timer.Stop(); ch <- 1; return (the return touches nothing shared and is
\* part of the step that sends).
WorkerAck(w) ==
    /\ workers[w].pc = "stop"
    /\ Len(ackCh[workers[w].ch]) < 1
    /\ ackCh' = [ackCh EXCEPT ![workers[w].ch] = Append(@, 1)]
    /\ workers' = [workers EXCEPT ![w].pc = "done", ![w].ch = 0]
    /\ UNCHANGED <<regVars, bgWorkerCloseCh, ipc, iconfig, calls, now, lastDate>>

\* case <-timer.C, and updateNow(): a tick begins.
WorkerTick(w) ==
    /\ workers[w].pc = "select"
    /\ updateNow
    /\ workers' = [workers EXCEPT ![w].pc = "flush", ![w].seen = {}]
    /\ UNCHANGED <<regVars, bgWorkerCloseCh, ackCh, ipc, iconfig, calls, now>>

\* One round of "for _, log := range loggerMap { log.Flush() }", or its end.
WorkerFlush(w) ==
    /\ workers[w].pc = "flush"
    /\ IF DOMAIN loggerMap \subseteq workers[w].seen
       THEN workers' = [workers EXCEPT ![w].pc = "select", ![w].seen = {}]
       ELSE \E name \in DOMAIN loggerMap \ workers[w].seen :
               workers' = [workers EXCEPT ![w].seen = @ \cup {name}]
    /\ UNCHANGED <<regVars, bgWorkerCloseCh, ackCh, ipc, iconfig, calls, now, lastDate>>

\* Midnight passes.
Midnight ==
    /\ now < MaxDate
    /\ now' = now + 1
    /\ UNCHANGED <<regVars, bgWorkerCloseCh, ackCh, workers, ipc, iconfig, calls, lastDate>>

\* User code, running once package initialization is over, is in
\* FileDevice.Write: "date := atomic.LoadUint32(&lastDate)", the date the
\* file will be named from.
UserLoad ==
    /\ booted
    /\ loaded' = loaded \cup {lastDate}
    /\ UNCHANGED <<regVars, bgVars, devVars, wrVars, fsOK, dropped>>

\* One goroutine calls Init.
BgNext ==
    \/ initGo /\ UNCHANGED <<devVars, newVars>>
    \/ \E config \in BgConfigs : InitCall(1, config) /\ UNCHANGED <<devVars, newVars>>
    \/ InitSend(1) /\ UNCHANGED <<devVars, newVars>>
    \/ InitRecv(1) /\ UNCHANGED <<devVars, newVars>>
    \/ InitLoop(1) /\ UNCHANGED <<devVars, newVars>>
    \/ InitDefault(1) /\ UNCHANGED <<devVars, newVars>>
    \/ InitGo(1) /\ UNCHANGED <<devVars, newVars>>
    \/ \E w \in 1..Len(workers) : WorkerStart(w) /\ UNCHANGED <<devVars, newVars>>
    \/ \E w \in 1..Len(workers) : WorkerRecvClose(w) /\ UNCHANGED <<devVars, newVars>>
    \/ \E w \in 1..Len(workers) : WorkerAck(w) /\ UNCHANGED <<devVars, newVars>>
    \/ \E w \in 1..Len(workers) : WorkerTick(w) /\ UNCHANGED <<devVars, newVars>>
    \/ \E w \in 1..Len(workers) : WorkerFlush(w) /\ UNCHANGED <<devVars, newVars>>
    \/ Midnight /\ UNCHANGED <<devVars, newVars>>
    \/ UserLoad

SpecBg == Start /\ [][BgNext]_vars

\* Fair scheduling: a goroutine that can take its next step takes it, the
\* ticker fires again and again, and a select that finds a stop request
\* again and again takes it (select picks among its ready cases at random).
BgFairness ==
    /\ WF_vars(initGo /\ UNCHANGED <<devVars, newVars>>)
    /\ WF_vars(InitSend(1) /\ UNCHANGED <<devVars, newVars>>)
    /\ WF_vars(InitRecv(1) /\ UNCHANGED <<devVars, newVars>>)
    /\ WF_vars(InitLoop(1) /\ UNCHANGED <<devVars, newVars>>)
    /\ WF_vars(InitDefault(1) /\ UNCHANGED <<devVars, newVars>>)
    /\ WF_vars(InitGo(1) /\ UNCHANGED <<devVars, newVars>>)
    /\ WF_vars(\E w \in 1..Len(workers) : WorkerStart(w) /\ UNCHANGED <<devVars, newVars>>)
    /\ SF_vars(\E w \in 1..Len(workers) : WorkerRecvClose(w) /\ UNCHANGED <<devVars, newVars>>)
    /\ WF_vars(\E w \in 1..Len(workers) : WorkerAck(w) /\ UNCHANGED <<devVars, newVars>>)
    /\ WF_vars(\E w \in 1..Len(workers) : WorkerTick(w) /\ UNCHANGED <<devVars, newVars>>)
    /\ WF_vars(\E w \in 1..Len(workers) : WorkerFlush(w) /\ UNCHANGED <<devVars, newVars>>)

SpecBgFair == Start /\ [][BgNext]_vars /\ BgFairness

\* Several goroutines call Init.
BgNext2 ==
    \/ initGo /\ UNCHANGED <<devVars, newVars>>
    \/ \E c \in Callers, config \in BgConfigs :
          InitCall(c, config) /\ UNCHANGED <<devVars, newVars>>
    \/ \E c \in Callers : InitSend(c) /\ UNCHANGED <<devVars, newVars>>
    \/ \E c \in Callers : InitRecv(c) /\ UNCHANGED <<devVars, newVars>>
    \/ \E c \in Callers : InitLoop(c) /\ UNCHANGED <<devVars, newVars>>
    \/ \E c \in Callers : InitDefault(c) /\ UNCHANGED <<devVars, newVars>>
    \/ \E c \in Callers : InitGo(c) /\ UNCHANGED <<devVars, newVars>>
    \/ \E w \in 1..Len(workers) : WorkerStart(w) /\ UNCHANGED <<devVars, newVars>>
    \/ \E w \in 1..Len(workers) : WorkerRecvClose(w) /\ UNCHANGED <<devVars, newVars>>
    \/ \E w \in 1..Len(workers) : WorkerAck(w) /\ UNCHANGED <<devVars, newVars>>
    \/ \E w \in 1..Len(workers) : WorkerTick(w) /\ UNCHANGED <<devVars, newVars>>
    \/ \E w \in 1..Len(workers) : WorkerFlush(w) /\ UNCHANGED <<devVars, newVars>>
    \/ Midnight /\ UNCHANGED <<devVars, newVars>>

SpecBg2 == Start /\ [][BgNext2]_vars

----------------------------------------------------------------------------
(* The devices of one logger under concurrent Logger.Write calls and the    *)
(* scheduler's Logger.Flush (specification SpecDev). A step is one          *)
(* statement of a device method; inside Write, one byte handed over.        *)

\* The logger written to: one file, one console and one stdout writer.
DevConfig ==
    <<[Name |-> sApp, Level |-> <<"D">>, Writer |-> <<"F","i","l","e",":","l">>],
      [Name |-> sApp, Level |-> <<"E","r","r">>, Writer |-> sConsole],
      [Name |-> sApp, Level |-> <<"D">>, Writer |-> sStdout]>>

\* Levels of the messages written.
DevLevels == {ERROR}

\* The lock holder that stands for the flushing goroutine.
Flusher == 9

\* createFileDevice / createConsoleDevice / createStdoutDevice: a file
\* device starts with no handle, no bufio.Writer and lastdate 0; a stdout
\* device with an empty bufio.Writer over os.Stdout. wfile is the handle the
\* bufio.Writer of a file device wraps.
NewDeviceState(device) ==
    [kind |-> device.kind, lock |-> 0, file |-> 0, wfile |-> 0,
     writer |-> (device.kind = sStdout), buf |-> <<>>, lastdate |-> 0]

DevLog == loggerMap[ToLower(sApp)]
DevWriters == heap[DevLog].writers

\* Package initialization (the worker's first updateNow included), then
\* Init(DevConfig).
DevSetup ==
    /\ ~booted
    /\ \E r0 \in {InitResult(<<>>, loggerMap, heap)} :
       \E r \in {InitResult(DevConfig, r0.map, r0.heap)} :
          /\ loggerMap' = r.map
          /\ heap' = r.heap
          /\ LET ws == r.heap[r.map[ToLower(sApp)]].writers IN
             /\ devs' = [i \in 1..Len(ws) |-> NewDeviceState(ws[i].device)]
             /\ out' = [i \in 1..Len(ws) |-> <<>>]
    /\ booted' = TRUE
    /\ lastDate' = now
    /\ UNCHANGED <<panicked, last, lastConfig, bgWorkerCloseCh, ackCh, workers,
                   ipc, iconfig, calls, now,
                   disk, handles, fopens, accepted, procs, flusher>>

\* Logger.Write up to its loop: the minLevel test and Format.
WriteCall(p, level) ==
    /\ booted
    /\ procs[p].pc = "idle"
    /\ procs[1].n + procs[2].n < MaxWrites
    /\ procs' = [procs EXCEPT ![p] =
          IF level < heap[DevLog].minLevel
          THEN [@ EXCEPT !.n = @ + 1]
          ELSE [@ EXCEPT !.n = @ + 1, !.pc = "loop", !.i = 1, !.level = level]]
    /\ UNCHANGED <<regVars, bgVars, devs, disk, handles, fopens, accepted, out, flusher>>

\* The head of "for _, writer := range log.writers": the end of the loop
\* (buffs.put and return), a writer that is skipped, or the entry into the
\* device's Write, which for a file device loads lastDate before it locks.
WriteLoop(p) ==
    /\ procs[p].pc = "loop"
    /\ LET i == procs[p].i IN
       procs' = [procs EXCEPT ![p] =
          IF i > Len(DevWriters) THEN [IdleProc EXCEPT !.n = procs[p].n]
          ELSE IF ~Accepts(procs[p].level, DevWriters[i]) THEN [@ EXCEPT !.i = i + 1]
          ELSE [@ EXCEPT !.pc = "lock",
                         !.date = IF devs[i].kind = sFile THEN lastDate ELSE 0]]
    /\ UNCHANGED <<regVars, bgVars, devs, disk, handles, fopens, accepted, out, flusher>>

\* A variant of the lock that never makes a goroutine wait.
LockFree(i, who) == TRUE

\* sync.Mutex.Lock returns when nobody holds the lock.
LockIsFree(i, who) == devs[i].lock = 0

\* lock.Lock() at the head of a device's Write.
DevLock(p) ==
    /\ procs[p].pc = "lock"
    /\ LET i == procs[p].i IN
       /\ LockIsFree(i, p)
       /\ devs' = [devs EXCEPT ![i].lock = p]
       /\ procs' = [procs EXCEPT ![p].pc =
             IF devs[i].kind = sFile THEN "rotate" ELSE "write", ![p].k = 1]
    /\ UNCHANGED <<regVars, bgVars, disk, handles, fopens, accepted, out, flusher>>

\* bufio.Writer.Flush of file device d: the buffer goes to the file of the
\* handle it wraps; a closed handle takes nothing.
FlushedDisk(d) ==
    IF d.buf # <<>> /\ d.wfile \in handles
    THEN [disk EXCEPT ![fopens[d.wfile]] = @ \o d.buf]
    ELSE disk

FlushedBuf(d) == IF d.wfile \in handles THEN <<>> ELSE d.buf

\* A variant of the rotation that closes the file without flushing.
RotatedNoFlush(d, date) ==
    IF d.lastdate # date /\ d.file # 0
    THEN [dev |-> [d EXCEPT !.file = 0, !.buf = <<>>],
          disk |-> disk, handles |-> handles \ {d.file}]
    ELSE [dev |-> d, disk |-> disk, handles |-> handles]

\* "if file.lastdate != date { if file.file != nil { Flush; Close; file.file = nil } }"
Rotated(d, date) ==
    IF d.lastdate # date /\ d.file # 0
    THEN [dev |-> [d EXCEPT !.file = 0, !.buf = FlushedBuf(d)],
          disk |-> FlushedDisk(d), handles |-> handles \ {d.file}]
    ELSE [dev |-> d, disk |-> disk, handles |-> handles]

FileRotate(p) ==
    /\ procs[p].pc = "rotate"
    /\ \E r \in {Rotated(devs[procs[p].i], procs[p].date)} :
          /\ devs' = [devs EXCEPT ![procs[p].i] = r.dev]
          /\ disk' = r.disk
          /\ handles' = r.handles
    /\ procs' = [procs EXCEPT ![p].pc = "open"]
    /\ UNCHANGED <<regVars, bgVars, fopens, accepted, out, flusher>>

\* "if file.file == nil { ... os.OpenFile ... bufio.NewWriter; file.lastdate = date }"
\* with the open succeeding: the new handle is the next index of fopens.
FileOpen(p) ==
    /\ procs[p].pc = "open"
    /\ LET i == procs[p].i IN
       IF devs[i].file = 0
       THEN /\ fopens' = Append(fopens, procs[p].date)
            /\ handles' = handles \cup {Len(fopens) + 1}
            /\ devs' = [devs EXCEPT ![i].file = Len(fopens) + 1,
                                    ![i].wfile = Len(fopens) + 1,
                                    ![i].writer = TRUE,
                                    ![i].buf = <<>>,
                                    ![i].lastdate = procs[p].date]
       ELSE UNCHANGED <<fopens, handles, devs>>
    /\ procs' = [procs EXCEPT ![p].pc = "write", ![p].k = 1]
    /\ UNCHANGED <<regVars, bgVars, disk, accepted, out, flusher>>

\* The byte of its message goroutine p hands over next.
NextByte(p) ==
    [p |-> p, n |-> procs[p].n, k |-> procs[p].k, d |-> procs[p].date]

\* One byte of the device's write: os.Stdout.Write for a console device,
\* bufio.Writer.Write for the others, which flushes a full buffer first.
DevWrite(p) ==
    /\ procs[p].pc = "write"
    /\ LET i == procs[p].i
           d == devs[i]
           b == NextByte(p)
       IN  \/ /\ d.kind = sConsole
              /\ out' = [out EXCEPT ![i] = Append(@, b)]
              /\ UNCHANGED <<devs, disk, accepted>>
           \/ /\ d.kind = sStdout
              /\ IF Len(d.buf) >= BufSize
                 THEN /\ out' = [out EXCEPT ![i] = @ \o d.buf]
                      /\ devs' = [devs EXCEPT ![i].buf = <<b>>]
                 ELSE /\ devs' = [devs EXCEPT ![i].buf = Append(@, b)]
                      /\ UNCHANGED out
              /\ UNCHANGED <<disk, accepted>>
           \/ /\ d.kind = sFile
              /\ IF Len(d.buf) >= BufSize
                 THEN /\ disk' = FlushedDisk(d)
                      /\ devs' = [devs EXCEPT ![i].buf = Append(FlushedBuf(d), b)]
                 ELSE /\ devs' = [devs EXCEPT ![i].buf = Append(@, b)]
                      /\ UNCHANGED disk
              /\ accepted' = [accepted EXCEPT ![procs[p].date] = Append(@, b)]
              /\ UNCHANGED out
    /\ procs' = [procs EXCEPT ![p] =
          IF procs[p].k < MsgLen THEN [@ EXCEPT !.k = @ + 1]
          ELSE [@ EXCEPT !.pc = "unlock"]]
    /\ UNCHANGED <<regVars, bgVars, handles, fopens, flusher>>

\* lock.Unlock(), and the device's Write returns to the loop.
DevUnlock(p) ==
    /\ procs[p].pc = "unlock"
    /\ devs' = [devs EXCEPT ![procs[p].i].lock = 0]
    /\ procs' = [procs EXCEPT ![p].pc = "loop", ![p].i = @ + 1, ![p].k = 0,
                              ![p].date = 0]
    /\ UNCHANGED <<regVars, bgVars, disk, handles, fopens, accepted, out, flusher>>

\* The scheduler's tick reaches log.Flush() of the logger.
FlushCall ==
    /\ booted
    /\ flusher.pc = "idle"
    /\ flusher' = [pc |-> "loop", i |-> 1]
    /\ UNCHANGED <<regVars, bgVars, devs, disk, handles, fopens, accepted, out, procs>>

\* The head of "for _, writer := range log.writers" in Logger.Flush; the
\* Flush of a console device does nothing.
FlushLoop ==
    /\ flusher.pc = "loop"
    /\ flusher' =
          IF flusher.i > Len(DevWriters) THEN [pc |-> "idle", i |-> 0]
          ELSE IF devs[flusher.i].kind = sConsole THEN [flusher EXCEPT !.i = @ + 1]
          ELSE [flusher EXCEPT !.pc = "lock"]
    /\ UNCHANGED <<regVars, bgVars, devs, disk, handles, fopens, accepted, out, procs>>

\* lock.Lock() at the head of a device's Flush.
FlushLock ==
    /\ flusher.pc = "lock"
    /\ LockIsFree(flusher.i, Flusher)
    /\ devs' = [devs EXCEPT ![flusher.i].lock = Flusher]
    /\ flusher' = [flusher EXCEPT !.pc = "flush"]
    /\ UNCHANGED <<regVars, bgVars, disk, handles, fopens, accepted, out, procs>>

\* "if file.writer != nil { file.writer.Flush() }" / "console.writer.Flush()"
FlushDo ==
    /\ flusher.pc = "flush"
    /\ LET i == flusher.i
           d == devs[i]
       IN  IF d.kind = sFile
           THEN /\ disk' = IF d.writer THEN FlushedDisk(d) ELSE disk
                /\ devs' = [devs EXCEPT ![i].buf = IF d.writer THEN FlushedBuf(d) ELSE @]
                /\ UNCHANGED out
           ELSE /\ out' = [out EXCEPT ![i] = @ \o d.buf]
                /\ devs' = [devs EXCEPT ![i].buf = <<>>]
                /\ UNCHANGED disk
    /\ flusher' = [flusher EXCEPT !.pc = "unlock"]
    /\ UNCHANGED <<regVars, bgVars, handles, fopens, accepted, procs>>

\* lock.Unlock() at the end of a device's Flush.
FlushUnlock ==
    /\ flusher.pc = "unlock"
    /\ devs' = [devs EXCEPT ![flusher.i].lock = 0]
    /\ flusher' = [flusher EXCEPT !.pc = "loop", !.i = @ + 1]
    /\ UNCHANGED <<regVars, bgVars, disk, handles, fopens, accepted, out, procs>>

\* The scheduler's tick calls updateNow.
TickUpdateNow ==
    /\ booted
    /\ lastDate # now
    /\ updateNow
    /\ UNCHANGED <<regVars, bgWorkerCloseCh, ackCh, workers, ipc, iconfig, calls, now,
                   devVars>>

DevNext ==
    \/ DevSetup /\ UNCHANGED newVars
    \/ \E p \in Procs, level \in DevLevels : WriteCall(p, level) /\ UNCHANGED newVars
    \/ \E p \in Procs : WriteLoop(p) /\ UNCHANGED newVars
    \/ \E p \in Procs : DevLock(p) /\ UNCHANGED newVars
    \/ \E p \in Procs : FileRotate(p) /\ UNCHANGED newVars
    \/ \E p \in Procs : FileOpen(p) /\ UNCHANGED newVars
    \/ \E p \in Procs : DevWrite(p) /\ UNCHANGED newVars
    \/ \E p \in Procs : DevUnlock(p) /\ UNCHANGED newVars
    \/ FlushCall /\ UNCHANGED newVars
    \/ FlushLoop /\ UNCHANGED newVars
    \/ FlushLock /\ UNCHANGED newVars
    \/ FlushDo /\ UNCHANGED newVars
    \/ FlushUnlock /\ UNCHANGED newVars
    \/ TickUpdateNow /\ UNCHANGED newVars
    \/ Midnight /\ UNCHANGED <<devVars, newVars>>

SpecDev == Start /\ [][DevNext]_vars

----------------------------------------------------------------------------
(* Logger.Write statement by statement, with the buffer pool and the exit   *)
(* of Fatal (specification SpecWrite). A device's Write is one step here.   *)

\* The logger written to besides "default": a WARN and an ERROR writer.
WrConfig ==
    <<[Name |-> sApp, Level |-> <<"W">>, Writer |-> sConsole],
      [Name |-> sApp, Level |-> <<"E","r","r">>, Writer |-> sStdout]>>

\* Levels of the messages written through Logger.Write.
WrLevels == {INFO, WARN}

\* Package initialization, then Init(WrConfig).
WrSetup ==
    /\ ~booted
    /\ \E r0 \in {InitResult(<<>>, loggerMap, heap)} :
       \E r \in {InitResult(WrConfig, r0.map, r0.heap)} :
          /\ loggerMap' = r.map
          /\ heap' = r.heap
          /\ recv' = [l \in 1..Len(r.heap) |->
                         [i \in 1..Len(r.heap[l].writers) |->
                             [p \in Procs |-> <<>>]]]
    /\ booted' = TRUE
    /\ UNCHANGED <<panicked, last, lastConfig, bgVars, devVars,
                   wprocs, pool, bufs, exitStatus, fsOK, dropped, loaded>>

\* os.Exit has not been called.
Running == exitStatus = -1

\* A goroutine enters log.Write(level, ...); fatal tells that the caller is
\* a Fatal function, which goes on to os.Exit.
EnterWrite(p, log, level, fatal) ==
    /\ booted
    /\ Running
    /\ wprocs[p].pc = "idle"
    /\ wprocs[1].n + wprocs[2].n < MaxWrites
    /\ wprocs' = [wprocs EXCEPT ![p] =
          [IdleCall EXCEPT !.pc = "test", !.log = log, !.level = level,
                           !.fatal = fatal, !.n = wprocs[p].n + 1]]
    /\ UNCHANGED <<regVars, bgVars, devVars, pool, bufs, recv, exitStatus,
                   fsOK, dropped, loaded>>

\* Logger.Debug .. Logger.Error, or Logger.Write called directly.
LoggerWrite(p, log, level) == EnterWrite(p, log, level, FALSE)

\* A variant of the package-level Fatal that exits before it writes.
FatalExitsFirst(p) ==
    /\ booted
    /\ Running
    /\ wprocs[p].pc = "idle"
    /\ wprocs[1].n + wprocs[2].n < MaxWrites
    /\ wprocs' = [wprocs EXCEPT ![p] =
          [IdleCall EXCEPT !.pc = "exit", !.log = loggerMap[sDefault],
                           !.level = FATAL, !.fatal = TRUE,
                           !.n = wprocs[p].n + 1]]
    /\ UNCHANGED <<regVars, bgVars, devVars, pool, bufs, recv, exitStatus,
                   fsOK, dropped, loaded>>

\* The package-level Fatal: loggerMap["default"].Write(FATAL, ...)
Fatal(p) == EnterWrite(p, loggerMap[sDefault], FATAL, TRUE)

\* Logger.Fatal: log.Write(FATAL, ...)
LoggerFatal(p, log) == EnterWrite(p, log, FATAL, TRUE)

\* "if level < log.minLevel { return }"
WrTest(p) ==
    /\ Running
    /\ wprocs[p].pc = "test"
    /\ wprocs' = [wprocs EXCEPT ![p].pc =
          IF wprocs[p].level < heap[wprocs[p].log].minLevel
          THEN "ret" ELSE "format"]
    /\ UNCHANGED <<regVars, bgVars, devVars, pool, bufs, recv, exitStatus,
                   fsOK, dropped, loaded>>

\* buffPool.get: sync.Pool.Get hands out a buffer of the pool, taking it
\* out, or a buffer freshly made by New.
GetChoices == pool \cup (IF Len(bufs) < MaxBufs THEN {Len(bufs) + 1} ELSE {})

\* A variant of bytes.Buffer.Reset that keeps the contents.
ResetKeeps(buf) == buf

\* bytes.Buffer.Reset
Reset(buf) == <<>>

\* DefaultFormatter.Format: buffs.get(), then the rendering is written to
\* the buffer behind whatever it holds.
FormatCall(p) ==
    /\ Running
    /\ wprocs[p].pc = "format"
    /\ \E b \in GetChoices :
          LET old == IF b \in DOMAIN bufs THEN bufs[b] ELSE <<>> IN
          /\ pool' = pool \ {b}
          /\ bufs' = IF b \in DOMAIN bufs
                     THEN [bufs EXCEPT ![b] =
                              Append(@, Format(wprocs[p].level, "y"))]
                     ELSE Append(bufs, <<Format(wprocs[p].level, "y")>>)
          /\ wprocs' = [wprocs EXCEPT ![p].pc = "loop", ![p].i = 1,
                                      ![p].buff = b, ![p].gotLen = Len(old),
                                      ![p].gets = @ + 1, ![p].fmts = @ + 1]
    /\ UNCHANGED <<regVars, bgVars, devVars, recv, exitStatus,
                   fsOK, dropped, loaded>>

\* A variant of the loop's end that leaves the loop after the first writer.
AfterFirst(p) == wprocs[p].i > 1

\* The end of "for _, writer := range log.writers".
AfterLoop(p) == wprocs[p].i > Len(heap[wprocs[p].log].writers)

\* One round of the loop: the writer is skipped, or its device is handed
\* b, the bytes of the buffer; after the last round comes buffs.put.
WrLoop(p) ==
    /\ Running
    /\ wprocs[p].pc = "loop"
    /\ LET c == wprocs[p]
           ws == heap[c.log].writers
       IN  IF AfterLoop(p)
           THEN /\ wprocs' = [wprocs EXCEPT ![p].pc = "put"]
                /\ UNCHANGED recv
           ELSE /\ wprocs' = [wprocs EXCEPT ![p].i = @ + 1]
                /\ IF Accepts(c.level, ws[c.i])
                   THEN recv' = [recv EXCEPT ![c.log][c.i][p] =
                            Append(@, [n |-> c.n, bytes |-> bufs[c.buff]])]
                   ELSE UNCHANGED recv
    /\ UNCHANGED <<regVars, bgVars, devVars, pool, bufs, exitStatus,
                   fsOK, dropped, loaded>>

\* buffs.put(buff): buf.Reset(), pool.Put(buf); Logger.Write is at its end.
WrPut(p) ==
    /\ Running
    /\ wprocs[p].pc = "put"
    /\ bufs' = [bufs EXCEPT ![wprocs[p].buff] = Reset(@)]
    /\ pool' = pool \cup {wprocs[p].buff}
    /\ wprocs' = [wprocs EXCEPT ![p].pc = "ret", ![p].buff = 0, ![p].puts = @ + 1]
    /\ UNCHANGED <<regVars, bgVars, devVars, recv, exitStatus,
                   fsOK, dropped, loaded>>

\* Logger.Write returns to its caller.
WrReturn(p) ==
    /\ Running
    /\ wprocs[p].pc = "ret"
    /\ wprocs' = [wprocs EXCEPT ![p].pc = IF wprocs[p].fatal THEN "exit" ELSE "idle"]
    /\ UNCHANGED <<regVars, bgVars, devVars, pool, bufs, recv, exitStatus,
                   fsOK, dropped, loaded>>

\* os.Exit(1) in a Fatal function.
OsExit(p) ==
    /\ Running
    /\ wprocs[p].pc = "exit"
    /\ exitStatus' = 1
    /\ UNCHANGED <<regVars, bgVars, devVars, wprocs, pool, bufs, recv,
                   fsOK, dropped, loaded>>

\* The garbage collector empties the sync.Pool of a buffer.
PoolDrop ==
    /\ Running
    /\ \E b \in pool : pool' = pool \ {b}
    /\ UNCHANGED <<regVars, bgVars, devVars, wprocs, bufs, recv, exitStatus,
                   fsOK, dropped, loaded>>

WrNext ==
    \/ WrSetup
    \/ \E p \in Procs, log \in 1..Len(heap), level \in WrLevels :
          LoggerWrite(p, log, level)
    \/ \E p \in Procs : Fatal(p)
    \/ \E p \in Procs, log \in 1..Len(heap) : LoggerFatal(p, log)
    \/ \E p \in Procs : WrTest(p)
    \/ \E p \in Procs : FormatCall(p)
    \/ \E p \in Procs : WrLoop(p)
    \/ \E p \in Procs : WrPut(p)
    \/ \E p \in Procs : WrReturn(p)
    \/ \E p \in Procs : OsExit(p)
    \/ PoolDrop

SpecWrite == Start /\ [][WrNext]_vars

----------------------------------------------------------------------------
(* A file device whose open can fail (specification SpecFail).              *)

\* The logger written to: one file writer.
FailConfig ==
    <<[Name |-> sApp, Level |-> <<"D">>, Writer |-> <<"F","i","l","e",":","l">>]>>

\* Package initialization (the worker's first updateNow included), then
\* Init(FailConfig).
FailSetup ==
    /\ ~booted
    /\ \E r0 \in {InitResult(<<>>, loggerMap, heap)} :
       \E r \in {InitResult(FailConfig, r0.map, r0.heap)} :
          /\ loggerMap' = r.map
          /\ heap' = r.heap
          /\ LET ws == r.heap[r.map[ToLower(sApp)]].writers IN
             /\ devs' = [i \in 1..Len(ws) |-> NewDeviceState(ws[i].device)]
             /\ out' = [i \in 1..Len(ws) |-> <<>>]
    /\ booted' = TRUE
    /\ lastDate' = now
    /\ UNCHANGED <<panicked, last, lastConfig, bgWorkerCloseCh, ackCh, workers,
                   ipc, iconfig, calls, now,
                   disk, handles, fopens, accepted, procs, flusher, newVars>>

\* The file system starts to refuse the open (no space, no permission).
FsBreak ==
    /\ booted
    /\ fsOK
    /\ fsOK' = FALSE
    /\ UNCHANGED <<regVars, bgVars, devVars, wrVars, dropped, loaded>>

\* The file system takes opens again.
FsRepair ==
    /\ ~fsOK
    /\ fsOK' = TRUE
    /\ UNCHANGED <<regVars, bgVars, devVars, wrVars, dropped, loaded>>

\* "if file.file == nil { ... }" when the open, if there is one, succeeds.
FileOpenOk(p) ==
    /\ procs[p].pc = "open"
    /\ devs[procs[p].i].file = 0 => fsOK
    /\ FileOpen(p)
    /\ UNCHANGED newVars

\* A variant of the failed open that returns without unlocking.
FileOpenFailsLocked(p) ==
    /\ procs[p].pc = "open"
    /\ devs[procs[p].i].file = 0
    /\ ~fsOK
    /\ dropped' = dropped \cup {[p |-> p, n |-> procs[p].n, d |-> procs[p].date]}
    /\ procs' = [procs EXCEPT ![p].pc = "loop", ![p].i = @ + 1, ![p].k = 0,
                              ![p].date = 0]
    /\ UNCHANGED <<regVars, bgVars, devs, disk, handles, fopens, accepted, out,
                   flusher, wrVars, fsOK, loaded>>

\* "file.file, err = os.OpenFile(...); if err != nil { file.lock.Unlock();
\* fmt.Printf(...); return }": file.file is assigned nil, and the device's
\* Write returns to the loop of Logger.Write.
FileOpenFails(p) ==
    /\ procs[p].pc = "open"
    /\ devs[procs[p].i].file = 0
    /\ ~fsOK
    /\ devs' = [devs EXCEPT ![procs[p].i].file = 0, ![procs[p].i].lock = 0]
    /\ dropped' = dropped \cup {[p |-> p, n |-> procs[p].n, d |-> procs[p].date]}
    /\ procs' = [procs EXCEPT ![p].pc = "loop", ![p].i = @ + 1, ![p].k = 0,
                              ![p].date = 0]
    /\ UNCHANGED <<regVars, bgVars, disk, handles, fopens, accepted, out,
                   flusher, wrVars, fsOK, loaded>>

FailNext ==
    \/ FailSetup
    \/ FsBreak
    \/ FsRepair
    \/ \E p \in Procs, level \in DevLevels : WriteCall(p, level) /\ UNCHANGED newVars
    \/ \E p \in Procs : WriteLoop(p) /\ UNCHANGED newVars
    \/ \E p \in Procs : DevLock(p) /\ UNCHANGED newVars
    \/ \E p \in Procs : FileRotate(p) /\ UNCHANGED newVars
    \/ \E p \in Procs : FileOpenOk(p)
    \/ \E p \in Procs : FileOpenFails(p)
    \/ \E p \in Procs : DevWrite(p) /\ UNCHANGED newVars
    \/ \E p \in Procs : DevUnlock(p) /\ UNCHANGED newVars
    \/ FlushCall /\ UNCHANGED newVars
    \/ FlushLoop /\ UNCHANGED newVars
    \/ FlushLock /\ UNCHANGED newVars
    \/ FlushDo /\ UNCHANGED newVars
    \/ FlushUnlock /\ UNCHANGED newVars
    \/ TickUpdateNow /\ UNCHANGED newVars
    \/ Midnight /\ UNCHANGED <<devVars, newVars>>

SpecFail == Start /\ [][FailNext]_vars

----------------------------------------------------------------------------
(* The worker's ticks over the devices of the logger (specification         *)
(* SpecFlush): nobody calls Flush but the worker, and nobody calls Init     *)
(* once the logger is configured.                                           *)

\* The goroutines that write here.
FlushProcs == {1}

\* "go bgWorker()", the last statement of the Init that configured the
\* logger: the worker begins to exist.
LaunchWorker ==
    /\ booted
    /\ workers = <<>>
    /\ workers' = <<NewWorker>>
    /\ UNCHANGED <<regVars, bgWorkerCloseCh, ackCh, ipc, iconfig, calls, now,
                   lastDate, devVars, newVars>>

\* A variant of the flush pass that calls Flush on no logger.
TickFlushSkips(w) ==
    /\ workers[w].pc = "flush"
    /\ flusher.pc = "idle"
    /\ IF DOMAIN loggerMap \subseteq workers[w].seen
       THEN workers' = [workers EXCEPT ![w].pc = "select", ![w].seen = {}]
       ELSE \E name \in DOMAIN loggerMap \ workers[w].seen :
               workers' = [workers EXCEPT ![w].seen = @ \cup {name}]
    /\ UNCHANGED <<regVars, bgWorkerCloseCh, ackCh, ipc, iconfig, calls, now,
                   lastDate, devVars, newVars>>

\* One round of "for _, log := range loggerMap { log.Flush() }", or its
\* end. log.Flush() of the logger written to runs in the steps FlushLoop ..
\* FlushUnlock and the round after it waits for its return; the other
\* loggers own console devices only, whose Flush does nothing.
TickFlush(w) ==
    /\ workers[w].pc = "flush"
    /\ flusher.pc = "idle"
    /\ IF DOMAIN loggerMap \subseteq workers[w].seen
       THEN /\ workers' = [workers EXCEPT ![w].pc = "select", ![w].seen = {}]
            /\ UNCHANGED flusher
       ELSE \E name \in DOMAIN loggerMap \ workers[w].seen :
               /\ workers' = [workers EXCEPT ![w].seen = @ \cup {name}]
               /\ loggerMap[name] # DevLog =>
                     \A i \in 1..Len(heap[loggerMap[name]].writers) :
                         heap[loggerMap[name]].writers[i].device.kind = sConsole
               /\ flusher' = IF loggerMap[name] = DevLog
                             THEN [pc |-> "loop", i |-> 1] ELSE flusher
    /\ UNCHANGED <<regVars, bgWorkerCloseCh, ackCh, ipc, iconfig, calls, now,
                   lastDate, devs, disk, handles, fopens, accepted, out, procs,
                   newVars>>

FlushNext ==
    \/ DevSetup /\ UNCHANGED newVars
    \/ LaunchWorker
    \/ \E w \in 1..Len(workers) : WorkerStart(w) /\ UNCHANGED <<devVars, newVars>>
    \/ \E w \in 1..Len(workers) : WorkerTick(w) /\ UNCHANGED <<devVars, newVars>>
    \/ \E w \in 1..Len(workers) : TickFlush(w)
    \/ FlushLoop /\ UNCHANGED newVars
    \/ FlushLock /\ UNCHANGED newVars
    \/ FlushDo /\ UNCHANGED newVars
    \/ FlushUnlock /\ UNCHANGED newVars
    \/ \E p \in FlushProcs, level \in DevLevels : WriteCall(p, level) /\ UNCHANGED newVars
    \/ \E p \in FlushProcs : WriteLoop(p) /\ UNCHANGED newVars
    \/ \E p \in FlushProcs : DevLock(p) /\ UNCHANGED newVars
    \/ \E p \in FlushProcs : FileRotate(p) /\ UNCHANGED newVars
    \/ \E p \in FlushProcs : FileOpen(p) /\ UNCHANGED newVars
    \/ \E p \in FlushProcs : DevWrite(p) /\ UNCHANGED newVars
    \/ \E p \in FlushProcs : DevUnlock(p) /\ UNCHANGED newVars
    \/ Midnight /\ UNCHANGED <<devVars, newVars>>

\* Fair scheduling: a goroutine that can take its next step takes it; the
\* ticker fires again and again. Nothing obliges user code to write.
FlushFairness ==
    /\ WF_vars(LaunchWorker)
    /\ WF_vars(\E w \in 1..Len(workers) : WorkerStart(w) /\ UNCHANGED <<devVars, newVars>>)
    /\ WF_vars(\E w \in 1..Len(workers) : WorkerTick(w) /\ UNCHANGED <<devVars, newVars>>)
    /\ WF_vars(\E w \in 1..Len(workers) : TickFlush(w))
    /\ WF_vars(FlushLoop /\ UNCHANGED newVars)
    /\ WF_vars(FlushLock /\ UNCHANGED newVars)
    /\ WF_vars(FlushDo /\ UNCHANGED newVars)
    /\ WF_vars(FlushUnlock /\ UNCHANGED newVars)
    /\ WF_vars(\E p \in FlushProcs : WriteLoop(p) /\ UNCHANGED newVars)
    /\ WF_vars(\E p \in FlushProcs : DevLock(p) /\ UNCHANGED newVars)
    /\ WF_vars(\E p \in FlushProcs : FileRotate(p) /\ UNCHANGED newVars)
    /\ WF_vars(\E p \in FlushProcs : FileOpen(p) /\ UNCHANGED newVars)
    /\ WF_vars(\E p \in FlushProcs : DevWrite(p) /\ UNCHANGED newVars)
    /\ WF_vars(\E p \in FlushProcs : DevUnlock(p) /\ UNCHANGED newVars)

SpecFlush == Start /\ [][FlushNext]_vars /\ FlushFairness

----------------------------------------------------------------------------
(* Claims about the registry and the level filter.                          *)

\* The writers of the logger the last call was made on.
LastWriters == heap[last.log].writers

\* The device writes the last Write made to writer i.
Received(i) == {k \in DOMAIN last.out : last.out[k].writer = i}

\* C1: a Write at a level hands the formatted message to a writer's device,
\* once, if and only if the level is at least the writer's level.
ThmC1_WriteFilter ==
    last.op = "Write" =>
        \A i \in 1..Len(LastWriters) :
            IF last.level >= LastWriters[i].level
            THEN /\ Cardinality(Received(i)) = 1
                 /\ \A k \in Received(i) :
                        last.out[k].bytes = Format(last.level, last.msg)
            ELSE Received(i) = {}

\* An INFO message on a logger with a WARN writer and a lower one: the one
\* receives it and the WARN writer does not.
WitC1_InfoSkipsWarn ==
    /\ last.op = "Write"
    /\ last.level = INFO
    /\ \E i, j \in 1..Len(LastWriters) :
          /\ LastWriters[j].level = WARN
          /\ Received(j) = {}
          /\ Received(i) # {}

SetMin(S) == CHOOSE m \in S : \A x \in S : m <= x

WriterLevels(log) == {log.writers[i].level : i \in 1..Len(log.writers)}

\* C2 as stated: every logger's minLevel is the least level of its writers,
\* or DISABLE when it has none.
CexC2_MinLevelIsLeastWriterLevel ==
    \A l \in 1..Len(heap) :
        heap[l].minLevel = IF heap[l].writers = <<>> THEN DISABLE
                           ELSE SetMin(WriterLevels(heap[l]))

\* C2 as amended: every logger's minLevel is the least of DISABLE and the
\* levels of its writers.
ThmC2_MinLevelIsLeastUpToDisable ==
    \A l \in 1..Len(heap) :
        heap[l].minLevel = SetMin(WriterLevels(heap[l]) \cup {DISABLE})

\* SetLevel has just changed one of two writers that now differ in level.
WitC2_AfterSetLevel ==
    /\ last.op = "SetLevel"
    /\ last.err = "nil"
    /\ last.index >= 0
    /\ LET log == heap[loggerMap[last.name]] IN
       /\ Len(log.writers) = 2
       /\ log.writers[1].level # log.writers[2].level
       /\ log.writers[last.index + 1].level = getLevelFromStr(last.str)

\* C3: after SetLevel(name, -1, S) returned nil, every writer of the logger
\* has level S.
CexC3_SetLevelAll ==
    (last.op = "SetLevel" /\ last.index = -1 /\ last.err = "nil") =>
        \A i \in 1..Len(heap[loggerMap[last.name]].writers) :
            heap[loggerMap[last.name]].writers[i].level = getLevelFromStr(last.str)

\* C4: SetLevel never panics; it returns ErrNameNotFound for a name that is
\* not registered and ErrIndexOutOfBound for an index >= n or < -1.
CexC4_SetLevelErrors ==
    last.op = "SetLevel" =>
        /\ last.err # "panic"
        /\ last.name \notin DOMAIN loggerMap => last.err = ErrNameNotFound
        /\ (/\ last.name \in DOMAIN loggerMap
            /\ \/ last.index >= Len(heap[loggerMap[last.name]].writers)
               \/ last.index < -1)
           => last.err = ErrIndexOutOfBound

\* C5: once package initialization is over the registry holds "default";
\* GetLogger returns no nil logger, and for a name that is not registered it
\* returns the logger registered as "default".
ThmC5_DefaultExists ==
    booted =>
        /\ sDefault \in DOMAIN loggerMap
        /\ last.op = "GetLogger" =>
              /\ last.log \in 1..Len(heap)
              /\ last.name \notin DOMAIN loggerMap =>
                    last.log = loggerMap[sDefault]

\* GetLogger of a name that is not registered, with two loggers registered.
WitC5_FallbackLookup ==
    /\ last.op = "GetLogger"
    /\ last.name \notin DOMAIN loggerMap
    /\ Cardinality(DOMAIN loggerMap) = 2
    /\ last.log = loggerMap[sDefault]

\* C6: GetLogger(M) returns the logger registered under the case-normalized
\* M whenever there is one.
CexC6_LookupNormalized ==
    (last.op = "GetLogger" /\ ToLower(last.name) \in DOMAIN loggerMap) =>
        last.log = loggerMap[ToLower(last.name)]

RECURSIVE WritersOf(_, _)
\* The writers the entries of config describe for name, in order.
WritersOf(config, name) ==
    IF config = <<>> THEN <<>>
    ELSE (IF ToLower(Head(config).Name) = name
          THEN <<NewWriter(getLevelFromStr(Head(config).Level),
                           ToLower(Head(config).Writer))>>
          ELSE <<>>) \o WritersOf(Tail(config), name)

\* C8: after Init(config) returned, each logger named in config owns exactly
\* the writers config describes for it.
CexC8_InitReplaces ==
    (last.op = "Init" /\ last.err = "nil") =>
        \A k \in 1..Len(lastConfig) :
            LET name == ToLower(lastConfig[k].Name) IN
            heap[loggerMap[name]].writers = WritersOf(lastConfig, name)

\* C15: in every state reached through NewLogger, Init and SetLevel, a
\* Write hands the message to exactly the devices the loop's test
\* level >= w.level alone selects, in the same order: the early return on
\* minLevel suppresses nothing a writer would accept.
ThmC15_MinLevelShortCircuit ==
    last.op = "Write" =>
        last.out = Dispatch(LastWriters, 1, last.level,
                            Format(last.level, last.msg))

\* A Write below minLevel, on a logger whose two writers got their levels
\* from Init and from SetLevel, returned early.
WitC15_EarlyReturn ==
    /\ last.op = "Write"
    /\ last.level < heap[last.log].minLevel
    /\ last.out = <<>>
    /\ Len(LastWriters) = 2
    /\ WriterLevels(heap[last.log]) = {WARN, ERROR}

\* C17: a writer at DISABLE is handed no message written at DEBUG, INFO,
\* WARN or ERROR, and is handed every message written at FATAL, also when
\* all the writers of the logger are at DISABLE.
ThmC17_DisablePassesFatal ==
    last.op = "Write" =>
        \A i \in 1..Len(LastWriters) :
            LastWriters[i].level = DISABLE =>
                /\ last.level \in {DEBUG, INFO, WARN, ERROR} => Received(i) = {}
                /\ last.level = FATAL =>
                      /\ Cardinality(Received(i)) = 1
                      /\ \A k \in Received(i) :
                            last.out[k].bytes = Format(FATAL, last.msg)

\* A FATAL message on a logger with two writers, both at DISABLE (so that
\* minLevel is DISABLE): both devices were handed it.
WitC17_FatalThroughDisabled ==
    /\ last.op = "Write"
    /\ last.level = FATAL
    /\ Len(LastWriters) = 2
    /\ WriterLevels(heap[last.log]) = {DISABLE}
    /\ heap[last.log].minLevel = DISABLE
    /\ Len(last.out) = 2

----------------------------------------------------------------------------
(* Claims about the stop handshake.                                         *)

\* Caller c is between the receipt of the acknowledgment and the return of Init.
Mutating(c) == ipc[c] \in {"loop", "default", "go"}

\* C7: while the single caller of Init is between the receipt of the
\* acknowledgment and the relaunch of the worker, every worker launched so
\* far has returned: none is in a tick or can begin one.
ThmC7_NoWorkerWhileInitMutates ==
    Mutating(1) => \A w \in 1..Len(workers) : workers[w].pc = "done"

\* Init is applying a configuration entry, having stopped a worker; the
\* registry holds two loggers and the cached date was refreshed on day 2.
WitC7_MutatingAfterTick ==
    /\ ipc[1] = "loop"
    /\ iconfig[1] # <<>>
    /\ Cardinality(DOMAIN loggerMap) = 2
    /\ Len(workers) >= 2
    /\ lastDate = 2

\* C18: with one goroutine calling Init, fair scheduling and device
\* constructors that succeed, every Init call returns, func init's Init(nil)
\* (call 0) included: once it is about to send its stop request, it
\* eventually has returned, and the worker it launched, the last of one per
\* call on top of func init's first, is running.
ThmC18_InitTerminates ==
    \A n \in 0..MaxInits :
        (ipc[1] = "send" /\ calls = n)
            ~> (/\ ipc[1] = "idle"
                /\ calls = n
                /\ booted
                /\ Len(workers) = n + 2
                /\ workers[n + 2].pc # "done"
                /\ \A w \in 1..(n + 1) : workers[w].pc = "done")

\* The last Init call user code makes has returned; it registered a second
\* logger, and the worker it launched is in a flush pass.
WitC18_LastInitReturned ==
    /\ ipc[1] = "idle"
    /\ calls = MaxInits
    /\ Len(workers) = MaxInits + 2
    /\ workers[MaxInits + 2].pc = "flush"
    /\ Cardinality(DOMAIN loggerMap) = 2

\* The workers that have not returned, and the callers inside Init's
\* mutation of the registry.
LiveWorkers == {w \in 1..Len(workers) : workers[w].pc # "done"}
MutatingCallers == {c \in Callers : Mutating(c)}

\* The callers whose acknowledgment is sent and not yet received.
AckedCallers == {c \in Callers : ackCh[c] # <<>>}

\* C19: with Init calls issued one after another or concurrently, the
\* workers alive and the callers mutating the registry are at most one
\* goroutine in all: at most one worker is alive, at most one caller
\* mutates, and none mutates while a worker is alive. Once func init has
\* launched the first worker there is exactly one of: a worker alive, an
\* acknowledgment on its way, a caller mutating; so a worker is launched
\* only by a caller that has finished mutating, and a caller is
\* acknowledged only by a worker that was alive.
ThmC19_OneWorkerOrOneMutator ==
    /\ Cardinality(LiveWorkers) + Cardinality(MutatingCallers) <= 1
    /\ ipc[1] # "boot" =>
          Cardinality(LiveWorkers) + Cardinality(AckedCallers)
             + Cardinality(MutatingCallers) = 1

\* Two Init calls overlap: one caller is applying its configuration while
\* the stop request of the other waits in the channel for a worker.
WitC19_OverlappingInits ==
    \E c, d \in Callers :
        /\ c # d
        /\ ipc[c] = "loop" /\ iconfig[c] # <<>>
        /\ ipc[d] = "recv"
        /\ bgWorkerCloseCh = <<d>>
        /\ LiveWorkers = {}

\* C20: the clock cache is set by updateNow before package initialization
\* completes (by the time init's Init(nil) has its acknowledgment), so
\* every date user code loads in FileDevice.Write is a date updateNow
\* stored, never the initial 0.
ThmC20_ClockSetBeforeUse ==
    /\ (booted \/ Mutating(1)) => lastDate \in 1..now
    /\ loaded \subseteq 1..now

\* User code has loaded the date on both days.
WitC20_LoadedBothDays ==
    /\ loaded = {1, 2}
    /\ booted

----------------------------------------------------------------------------
(* Claims about the devices.                                                *)

\* The writers of the logger that own a file device.
FileWriters == {i \in 1..Len(devs) : devs[i].kind = sFile}

\* What the file of date d holds once the bufio.Writer over it is flushed.
FileStream(d) ==
    disk[d] \o
    (IF \E i \in FileWriters : devs[i].wfile # 0 /\ fopens[devs[i].wfile] = d
     THEN LET i == CHOOSE i \in FileWriters :
                       devs[i].wfile # 0 /\ fopens[devs[i].wfile] = d
          IN devs[i].buf
     ELSE <<>>)

\* C9: with every open and write succeeding, the file of each date holds,
\* in the order the device took them, exactly the bytes of the Writes that
\* read that date (buffered bytes are flushed into the old file before the
\* rotation closes it, none lands in the file of another date); a new file
\* is opened only after a change of date, so the Writes of one date share
\* one handle; and at most one handle is open at any time.
ThmC9_FileRoundTrip ==
    /\ Cardinality(handles) <= 1
    /\ \A d \in DOMAIN disk :
          /\ FileStream(d) = accepted[d]
          /\ \A j \in 1..Len(disk[d]) : disk[d][j].d = d
    /\ \A j \in 1..(Len(fopens) - 1) : fopens[j] # fopens[j + 1]
    /\ \A i \in FileWriters : devs[i].file # 0 =>
          /\ handles = {devs[i].file}
          /\ fopens[devs[i].file] = devs[i].lastdate

\* Two messages were written under date 1 and are in the file of date 1,
\* whose handle is closed; a later Write under date 2 went to a second file.
WitC9_RotatedAfterTwoWrites ==
    /\ Len(disk[1]) = 2 * MsgLen
    /\ fopens = <<1, 2>>
    /\ handles = {2}
    /\ Len(accepted[2]) = MsgLen
    /\ \A p \in Procs : procs[p].pc = "idle"

\* A stream is made of whole messages, each one contiguous; only its last
\* message may still be incomplete.
Contiguous(st) ==
    \A j \in 1..Len(st) :
        /\ st[j].k > 1 =>
              /\ j > 1
              /\ st[j-1].p = st[j].p
              /\ st[j-1].n = st[j].n
              /\ st[j-1].k = st[j].k - 1
        /\ (st[j].k < MsgLen /\ j < Len(st)) =>
              /\ st[j+1].p = st[j].p
              /\ st[j+1].n = st[j].n
              /\ st[j+1].k = st[j].k + 1

\* The goroutines inside the locked part of a method of device i.
InsideLock(i) ==
    {p \in Procs : procs[p].i = i /\ procs[p].pc \in {"rotate", "open", "write", "unlock"}}
    \cup (IF flusher.i = i /\ flusher.pc \in {"flush", "unlock"} THEN {Flusher} ELSE {})

\* C10: under every interleaving of Logger.Write calls and Flush calls,
\* whatever is inside the rotate-open-write part of a device's Write, or
\* inside its Flush, holds the device's lock and is alone there, and every
\* device's stream (each log file, what a console device wrote, what a
\* stdout device wrote and buffers) is made of contiguous messages.
ThmC10_MessagesContiguous ==
    /\ \A i \in 1..Len(devs) :
          /\ \A g \in InsideLock(i) : devs[i].lock = g
          /\ Cardinality(InsideLock(i)) <= 1
          /\ devs[i].kind = sConsole => Contiguous(out[i])
          /\ devs[i].kind = sStdout => Contiguous(out[i] \o devs[i].buf)
    /\ \A d \in DOMAIN disk : Contiguous(FileStream(d))

\* One goroutine is halfway through a message on a device that already
\* took a whole message, while the other goroutine and the flusher contend
\* for that device's lock.
WitC10_ContendedDevice ==
    \E p, q \in Procs :
        /\ p # q
        /\ procs[p].pc = "write" /\ procs[p].k = 2
        /\ procs[q].pc = "lock" /\ procs[q].i = procs[p].i
        /\ flusher.pc = "lock" /\ flusher.i = procs[p].i
        /\ devs[procs[p].i].kind = sStdout
        /\ Len(out[procs[p].i] \o devs[procs[p].i].buf) > MsgLen

----------------------------------------------------------------------------
(* Claims about the buffer pool, Logger.Write's buffer and Fatal.           *)

\* The goroutines that hold a buffer.
Holders(b) == {p \in Procs : wprocs[p].buff = b}

\* C11: every buffer handed out by the pool's get had length 0 when it was
\* handed out, fresh or reused; a buffer has at most one holder, and while
\* it is held it is not in the pool.
ThmC11_PoolBuffersEmpty ==
    /\ \A p \in Procs : wprocs[p].gotLen = 0
    /\ \A b \in 1..Len(bufs) :
          /\ Cardinality(Holders(b)) <= 1
          /\ b \in pool => (Holders(b) = {} /\ bufs[b] = <<>>)

\* A goroutine holds, filled, the only buffer ever allocated, which an
\* earlier call had used for a message that was delivered.
WitC11_BufferReused ==
    \E p \in Procs :
        /\ Len(bufs) = 1
        /\ wprocs[p].buff = 1
        /\ bufs[1] # <<>>
        /\ \E l \in 1..Len(recv) : \E i \in 1..Len(recv[l]) : \E q \in Procs :
           \E k \in 1..Len(recv[l][i][q]) :
              <<q, recv[l][i][q][k].n>> # <<p, wprocs[p].n>>

\* The deliveries of the current or last call of p to writer i of its logger.
Delivered(p, i) ==
    {k \in 1..Len(recv[wprocs[p].log][i][p]) :
        recv[wprocs[p].log][i][p][k].n = wprocs[p].n}

\* The call of p has dispatched: every writer that accepts the level was
\* handed the formatted message once, and the others nothing.
Dispatched(p) ==
    LET c == wprocs[p]
        ws == heap[c.log].writers
    IN  \A i \in 1..Len(ws) :
           IF c.level >= ws[i].level
           THEN /\ Cardinality(Delivered(p, i)) = 1
                /\ \A k \in Delivered(p, i) :
                      recv[c.log][i][p][k].bytes = <<Format(c.level, "y")>>
           ELSE Delivered(p, i) = {}

\* Logger.Write has returned in the call of p.
Returned(p) == wprocs[p].n > 0 /\ wprocs[p].pc \in {"idle", "exit"}

\* C12: when the process has exited, it did so with status 1 from a Fatal
\* function whose Logger.Write had returned: the FATAL message had been
\* handed to the device of every writer of the logger, and the buffer put back.
ThmC12_ExitAfterDispatch ==
    /\ exitStatus \in {-1, 1}
    /\ exitStatus = 1 =>
          \E p \in Procs :
             /\ wprocs[p].pc = "exit"
             /\ wprocs[p].fatal
             /\ wprocs[p].level = FATAL
             /\ wprocs[p].puts = 1
             /\ Dispatched(p)
             /\ \A i \in 1..Len(heap[wprocs[p].log].writers) : Delivered(p, i) # {}

\* The process exited from Logger.Fatal on the logger with two writers
\* while the other goroutine was inside the loop of its own Write.
WitC12_ExitedWhileOtherWrites ==
    /\ exitStatus = 1
    /\ \E p, q \in Procs :
          /\ wprocs[p].pc = "exit"
          /\ Len(heap[wprocs[p].log].writers) = 2
          /\ wprocs[q].pc = "loop"

\* C16: a call of Logger.Write gets at most one buffer, formats once into
\* it and puts it back at most once, and only once the loop has passed every
\* writer of the logger and the accepting ones were handed the bytes; once
\* the call has returned, a level at or above minLevel means one get and one
\* put, a level below minLevel means no get, no put, no Format and no device
\* write.
ThmC16_BufferPutOnceAfterLoop ==
    \A p \in Procs :
        LET c == wprocs[p] IN
        /\ c.puts <= c.gets
        /\ c.gets <= 1
        /\ c.fmts = c.gets
        /\ c.puts = 1 =>
              /\ c.i = Len(heap[c.log].writers) + 1
              /\ Dispatched(p)
        /\ Returned(p) =>
              IF c.level >= heap[c.log].minLevel
              THEN c.gets = 1 /\ c.puts = 1
              ELSE /\ c.gets = 0
                   /\ c.puts = 0
                   /\ \A i \in 1..Len(heap[c.log].writers) : Delivered(p, i) = {}

\* One goroutine has returned from a Write that only one of two writers
\* accepted, the other from a Write below minLevel.
WitC16_OneDispatchedOneSkipped ==
    \E p, q \in Procs :
        /\ wprocs[p].pc = "idle" /\ wprocs[p].puts = 1
        /\ wprocs[p].level = WARN
        /\ Len(heap[wprocs[p].log].writers) = 2
        /\ heap[wprocs[p].log].writers[2].level = ERROR
        /\ wprocs[q].pc = "idle" /\ wprocs[q].n > 0 /\ wprocs[q].gets = 0
        /\ wprocs[q].level < heap[wprocs[q].log].minLevel

----------------------------------------------------------------------------
(* Claims about a failing open.                                             *)

\* The calls of Logger.Write goroutine p has returned from.
CompletedCalls(p) ==
    1..(IF procs[p].pc = "idle" THEN procs[p].n ELSE procs[p].n - 1)

\* The bytes of call n of goroutine p the file device took.
TakenBytes(p, n) ==
    UNION {{<<d, j>> : j \in {k \in 1..Len(accepted[d]) :
                                accepted[d][k].p = p /\ accepted[d][k].n = n}} :
           d \in DOMAIN accepted}

\* Call n of goroutine p was dropped.
WasDropped(p, n) == \E c \in dropped : c.p = p /\ c.n = n

\* In every state: nothing panicked; the lock of the file device is held
\* exactly by whoever is inside a locked part; the device has a handle open
\* only when file is set; lastdate is the date of the last open that
\* succeeded; the files hold what the device took; and of the calls that
\* returned, a dropped one left no byte and every other one all its bytes.
FailureContained ==
    /\ ~panicked
    /\ \A i \in FileWriters :
          /\ \A g \in InsideLock(i) : devs[i].lock = g
          /\ devs[i].lock # 0 => devs[i].lock \in InsideLock(i)
          /\ handles = IF devs[i].file = 0 THEN {} ELSE {devs[i].file}
          /\ devs[i].lastdate = IF fopens = <<>> THEN 0 ELSE fopens[Len(fopens)]
    /\ \A d \in DOMAIN disk : FileStream(d) = accepted[d]
    /\ \A p \in Procs : \A n \in CompletedCalls(p) :
          Cardinality(TakenBytes(p, n)) = IF WasDropped(p, n) THEN 0 ELSE MsgLen

\* In every step: a Write that leaves the open statement of a device that
\* holds no handle has attempted the open (a file was opened, or the call
\* was dropped); and a step that drops a call leaves the lock free, no
\* handle, lastdate, the files and what the device took as they were.
OpenAttempted ==
    \A p \in Procs :
        LET i == procs[p].i IN
        (procs[p].pc = "open" /\ devs[i].file = 0 /\ procs'[p].pc # "open") =>
            \/ /\ Len(fopens') = Len(fopens) + 1
               /\ dropped' = dropped
            \/ /\ dropped' = dropped \cup {[p |-> p, n |-> procs[p].n, d |-> procs[p].date]}
               /\ procs'[p].pc = "loop"
               /\ devs'[i].lock = 0
               /\ devs'[i].file = 0
               /\ devs'[i].lastdate = devs[i].lastdate
               /\ handles' = {}
               /\ fopens' = fopens
               /\ accepted' = accepted
               /\ disk' = disk

\* C13: a failed open drops the message of that one call and nothing else;
\* the call returns with the lock released, no handle open and lastdate
\* unchanged, nothing panics, and a later Write that finds no handle
\* attempts the open again.
ThmC13_OpenFailureDropsOneMessage ==
    []FailureContained /\ [][OpenAttempted]_vars

\* A message went to the file of date 1; after the change of date a call
\* was dropped because the open failed; a later call opened the file of
\* date 2, and its message is in that file.
WitC13_DroppedThenWritten ==
    /\ \E c \in dropped : c.d = 2
    /\ fopens = <<1, 2>>
    /\ Len(disk[1]) = MsgLen
    /\ Len(disk[2]) = MsgLen
    /\ \A p \in Procs : procs[p].pc = "idle"
    /\ flusher.pc = "idle"

----------------------------------------------------------------------------
(* Claims about the worker's ticks.                                         *)

\* The bytes stdout devices have taken and not yet written to os.Stdout.
StdoutPending ==
    {i \in 1..Len(devs) : devs[i].kind = sStdout /\ devs[i].buf # <<>>}

\* A step in which a tick begins refreshes the cached date, and a step in
\* which the flush pass ends has had Flush called on every logger of the
\* registry.
TickStep ==
    \A w \in 1..Len(workers) :
        /\ (workers[w].pc = "select" /\ workers'[w].pc = "flush") =>
              lastDate' = now
        /\ (workers[w].pc = "flush" /\ workers'[w].pc = "select") =>
              /\ workers[w].seen = DOMAIN loggerMap
              /\ flusher.pc = "idle"

\* C14: every tick of the running worker refreshes the clock cache and
\* calls Flush on every logger of the registry; so, under fair scheduling
\* and with no Init and no Flush call from user code, again and again the
\* file of each date holds every byte the file device has taken for it, and
\* os.Stdout every byte a stdout device has taken: a byte that was taken is
\* written out at the latest by then.
ThmC14_TicksFlushBuffers ==
    /\ [][TickStep]_vars
    /\ \A d \in 1..MaxDate : []<>(disk[d] = accepted[d])
    /\ []<>(StdoutPending = {})

\* All the writes are over, their bytes are in the file and on os.Stdout,
\* none of them buffered, and the flusher has nothing in hand: with MsgLen
\* below BufSize, only a tick's Flush can have emptied the buffers.
WitC14_AllFlushedByTicks ==
    /\ procs[1].pc = "idle"
    /\ procs[1].n = MaxWrites
    /\ Len(disk[1]) = MaxWrites * MsgLen
    /\ \E i \in 1..Len(devs) :
          devs[i].kind = sStdout /\ Len(out[i]) = MaxWrites * MsgLen
    /\ \A i \in 1..Len(devs) : devs[i].buf = <<>>
    /\ flusher.pc = "idle"

====
